---- MODULE Spec2Model ----
(***************************************************************************)
(* nl::expected<T, E> (include/expected.hpp): a discriminated union of a   *)
(* success payload T and a failure payload E, with the factory             *)
(* nl::unexpected.                                                         *)
(*                                                                         *)
(* The template is modelled at two instantiations:                         *)
(*   "C" : expected<bool, std::string>        (bool written 0 / 1)         *)
(*   "M" : expected<monostate, std::string>   (what nl::unexpected makes)  *)
(* A std::string is a sequence of characters, a const char* a sequence of  *)
(* characters that ends with the terminator 0.                             *)
(*                                                                         *)
(* A container lives at a slot.  Its storage is the record                 *)
(*   live        the container object is within its lifetime               *)
(*   _has_value  the discriminant                                          *)
(*   vAlive      the union member _value is within its lifetime            *)
(*   eAlive      the union member _error is within its lifetime            *)
(*   mem         the contents of the union's storage                       *)
(* Payload copy and move constructors are taken not to throw.              *)
(***************************************************************************)
EXTENDS Integers, Sequences, FiniteSets, TLC

VARIABLES cont, live, ub, last, cxx20

vars == <<cont, live, ub, last, cxx20>>

\* number of named expected<bool, std::string> objects of the program
NC == 2
\* longest character sequence handed to the library
MaxLen == 1

----------------------------------------------------------------------------
(* Payload types *)

Chars == {1}

Mono == "monostate"

Indet == "indeterminate"

RECURSIVE SeqsUpTo(_, _)
SeqsUpTo(S, n) ==
    IF n = 0 THEN {<<>>}
    ELSE LET shorter == SeqsUpTo(S, n - 1)
         IN shorter \cup {Append(s, c) : s \in shorter, c \in S}

\* std::string values
Strings == SeqsUpTo(Chars, MaxLen)

\* const char* arguments: the characters of a text and the terminating 0
CStrings == {Append(s, 0) : s \in Strings}

\* std::string(const char*): the characters before the first 0
std_string(cs) ==
    LET n == CHOOSE k \in 1..Len(cs) : cs[k] = 0 /\ \A j \in 1..(k - 1) : cs[j] # 0
    IN SubSeq(cs, 1, n - 1)

\* values of T
TDom(ty) == IF ty = "C" THEN {0, 1} ELSE {Mono}

\* T(): value-initialisation
T_default(ty) == IF ty = "C" THEN 0 ELSE Mono

\* arguments of value_or: int for T = bool, monostate for T = monostate
UDom(ty) == IF ty = "C" THEN 0..2 ELSE {Mono}

\* a conversion that takes only 1 for true
static_cast_T_mut(ty, u) == IF ty = "C" THEN (IF u = 1 THEN 1 ELSE 0) ELSE u

\* static_cast<T>(std::forward<U>(other)); int -> bool is (u != 0)
static_cast_T(ty, u) == IF ty = "C" THEN (IF u = 0 THEN 0 ELSE 1) ELSE u

\* static_cast<E>(std::forward<U>(other)) with U = const char*
static_cast_E(cs) == std_string(cs)

----------------------------------------------------------------------------
(* Slots *)

CSlots == {<<"C", k>> : k \in 1..NC}

MSlots == {<<"M", 1>>}

UserSlots == CSlots \cup MSlots

\* the temporary expected(other) made for std::construct_at in operator=
AsgTmp(ty) == <<ty, 0>>

\* the temporary a converting construction makes for an assignment
ConvTmp == <<"C", -1>>

\* the temporary nl::unexpected returns
FacTmp == <<"M", -1>>

\* the temporary T(t) / E(e) made for std::construct_at in a constructor
PTmp == <<"P", 0>>

AllSlots == UserSlots \cup {AsgTmp("C"), AsgTmp("M"), ConvTmp, FacTmp}

TypeOf(s) == s[1]

NoSlot == <<"-", 0>>

Dead == [live |-> FALSE, _has_value |-> FALSE, vAlive |-> FALSE,
         eAlive |-> FALSE, mem |-> Indet]

----------------------------------------------------------------------------
(* Accessors: results are [kind, val], kind "ret" or "throw" *)

MsgValue == "Attempted to access the value of a error state"

MsgError == "Attempted to access the error of a value state"

Ret(x) == [kind |-> "ret", val |-> x]

Throw(m) == [kind |-> "throw", val |-> m]

NoRes == [kind |-> "none", val |-> "none"]

has_value(c) == c._has_value

operator_bool(c) == has_value(c)

\* const T& value() const&
value(c) == IF ~c._has_value THEN Throw(MsgValue) ELSE Ret(c.mem)

\* error() throwing value()'s message
error_mut(c) == IF c._has_value THEN Throw(MsgValue) ELSE Ret(c.mem)

\* const E& error() const&
error(c) == IF c._has_value THEN Throw(MsgError) ELSE Ret(c.mem)

\* T& value() &
value_lref(c) == IF ~c._has_value THEN Throw(MsgValue) ELSE Ret(c.mem)

\* E& error() &
error_lref(c) == IF c._has_value THEN Throw(MsgError) ELSE Ret(c.mem)

\* const T&& value() const&&: std::move(_value) is a cast, nothing is moved
value_const_rref(c) == IF ~c._has_value THEN Throw(MsgValue) ELSE Ret(c.mem)

\* const E&& error() const&&
error_const_rref(c) == IF c._has_value THEN Throw(MsgError) ELSE Ret(c.mem)

\* T&& value() &&
value_rref(c) == IF ~c._has_value THEN Throw(MsgValue) ELSE Ret(c.mem)

\* E&& error() &&
error_rref(c) == IF c._has_value THEN Throw(MsgError) ELSE Ret(c.mem)

value_or(c, ty, u) == IF c._has_value THEN c.mem ELSE static_cast_T(ty, u)

error_or(c, cs) == IF ~c._has_value THEN c.mem ELSE static_cast_E(cs)

\* a read of a union member outside its lifetime is undefined
ReadsDead(c, m) == IF m = "value" THEN ~c.vAlive ELSE ~c.eAlive

----------------------------------------------------------------------------
(* Object lifetime steps.  h = [cont, live, ub, ev]: the containers, the   *)
(* number of payload objects within their lifetime, whether undefined      *)
(* behaviour has happened, and the payload constructions / destructions    *)
(* of the running operation, in order.                                     *)

Ev(k, s, m) == [k |-> k, at |-> s, m |-> m]

H0 == [cont |-> cont, live |-> live, ub |-> ub, ev |-> <<>>]

\* new (location) T(x): the member's lifetime begins in the union's storage;
\* the storage is reused, so the other member's lifetime ends with no
\* destructor call
PlacementNew(h, s, m, x) ==
    [h EXCEPT !.cont[s] = [@ EXCEPT !.vAlive = (m = "value"),
                                    !.eAlive = (m = "error"),
                                    !.mem = x],
              !.live = @ + 1,
              !.ev = Append(@, Ev("ctor", s, m))]

\* _construct_at(std::addressof(member), T(x)).  From C++20 it is
\* std::construct_at(location, T(x)): the temporary T(x) is made, the member
\* is move-constructed from it, the temporary is destroyed.  Before C++20 it
\* is new (location) T(x).
construct_at(h, s, m, x) ==
    IF cxx20
    THEN LET h1 == [h EXCEPT !.live = @ + 1,
                             !.ev = Append(@, Ev("ctor", PTmp, m))]
             h2 == PlacementNew(h1, s, m, x)
         IN [h2 EXCEPT !.live = @ - 1,
                       !.ev = Append(@, Ev("dtor", PTmp, m))]
    ELSE PlacementNew(h, s, m, x)

\* member.~T(): undefined when the member is not within its lifetime
DestroyMember(h, s, m) ==
    IF ReadsDead(h.cont[s], m)
    THEN [h EXCEPT !.ub = TRUE, !.ev = Append(@, Ev("dtor", s, m))]
    ELSE [h EXCEPT !.cont[s] = [@ EXCEPT !.vAlive = FALSE, !.eAlive = FALSE,
                                         !.mem = Indet],
                   !.live = @ - 1,
                   !.ev = Append(@, Ev("dtor", s, m))]

\* the member initialiser _has_value(b) of a constructor running at s
BeginCtor(h, s, b) ==
    [h EXCEPT !.cont[s] = [@ EXCEPT !.live = TRUE, !._has_value = b]]

\* expected(const T& t)
expected_T(h, s, t) == construct_at(BeginCtor(h, s, TRUE), s, "value", t)

\* a constructor that makes E() and drops its argument
expected_E_mut(h, s, e) == construct_at(BeginCtor(h, s, FALSE), s, "error", <<>>)

\* expected(const E& e)
expected_E(h, s, e) == construct_at(BeginCtor(h, s, FALSE), s, "error", e)

\* expected()
expected_default(h, s) ==
    construct_at(BeginCtor(h, s, TRUE), s, "value", T_default(TypeOf(s)))

\* a conversion that takes the source for a failure whatever its state
expected_convert_mut(h, s, o) ==
    LET h0 == BeginCtor(h, s, FALSE)
        h1 == [h0 EXCEPT !.ub = @ \/ ReadsDead(h.cont[o], "error")]
    IN construct_at(h1, s, "error", h.cont[o].mem)

\* template<class U> expected(const expected<U, E>& other), U = monostate
expected_convert(h, s, o) ==
    LET b == has_value(h.cont[o])
        h0 == BeginCtor(h, s, b)
    IN IF b
       THEN construct_at(h0, s, "value", T_default(TypeOf(s)))
       ELSE LET h1 == [h0 EXCEPT !.ub = @ \/ ReadsDead(h.cont[o], "error")]
            IN construct_at(h1, s, "error", error(h.cont[o]).val)

\* a copy constructor whose member initialiser is _has_value(true)
expected_copy_mut(h, s, o) ==
    LET h0 == BeginCtor(h, s, TRUE)
    IN IF has_value(h.cont[o])
       THEN construct_at(h0, s, "value", h.cont[o].mem)
       ELSE construct_at(h0, s, "error", h.cont[o].mem)

\* expected(const expected& other)
expected_copy(h, s, o) ==
    LET b == has_value(h.cont[o])
        h0 == BeginCtor(h, s, b)
        m == IF b THEN "value" ELSE "error"
        h1 == [h0 EXCEPT !.ub = @ \/ ReadsDead(h.cont[o], m)]
    IN IF b
       THEN construct_at(h1, s, "value", value(h.cont[o]).val)
       ELSE construct_at(h1, s, "error", error(h.cont[o]).val)

\* a move constructor that re-tags its source as holding a value
expected_move_mut(h, s, o) ==
    LET b == h.cont[o]._has_value
        m == IF b THEN "value" ELSE "error"
        h0 == BeginCtor(h, s, b)
        h1 == construct_at(h0, s, m, h.cont[o].mem)
    IN [h1 EXCEPT !.cont[o]._has_value = TRUE]

\* expected(const expected&& other) noexcept.  other is const, so
\* std::move(other._value) is a const T&& and T's copy constructor is the one
\* that runs: the source payload is left as it was.
expected_move(h, s, o) ==
    LET b == h.cont[o]._has_value
        h0 == BeginCtor(h, s, b)
        m == IF has_value(h0.cont[s]) THEN "value" ELSE "error"
        h1 == [h0 EXCEPT !.ub = @ \/ ReadsDead(h.cont[o], m)]
    IN construct_at(h1, s, m, h.cont[o].mem)

\* the container's lifetime ends: its discriminant is indeterminate from here
EndLifetime(h, s) ==
    [h EXCEPT !.cont[s] = [@ EXCEPT !.live = FALSE, !._has_value = FALSE]]

\* a destructor that destroys no member
dtor_expected_mut(h, s) == EndLifetime(h, s)

\* ~expected()
dtor_expected(h, s) ==
    LET h1 == IF has_value(h.cont[s])
              THEN DestroyMember(h, s, "value")
              ELSE DestroyMember(h, s, "error")
    IN EndLifetime(h1, s)

\* _construct_at(this, expected(other)).  From C++20 the temporary
\* expected(other) is made, *this is constructed from that rvalue by
\* expected(const expected&&), and the temporary is destroyed.  Before C++20
\* it is new (this) expected(other).
reconstruct_copy(h, s, o) ==
    IF cxx20
    THEN LET t == AsgTmp(TypeOf(s))
         IN dtor_expected(expected_move(expected_copy(h, t, o), s, t), t)
    ELSE expected_copy(h, s, o)

\* _construct_at(this, expected(std::move(other)))
reconstruct_move(h, s, o) ==
    IF cxx20
    THEN LET t == AsgTmp(TypeOf(s))
         IN dtor_expected(expected_move(expected_move(h, t, o), s, t), t)
    ELSE expected_move(h, s, o)

\* a copy assignment that constructs over *this without destroying it
assign_copy_mut(h, s, o) ==
    IF s # o THEN reconstruct_copy(h, s, o) ELSE h

\* expected& operator=(const expected& other)
assign_copy(h, s, o) ==
    IF s # o THEN reconstruct_copy(dtor_expected(h, s), s, o) ELSE h

\* a move assignment with no identity check
assign_move_mut(h, s, o) ==
    reconstruct_move(dtor_expected(h, s), s, o)

\* expected& operator=(const expected&& other) noexcept
assign_move(h, s, o) ==
    IF s # o THEN reconstruct_move(dtor_expected(h, s), s, o) ELSE h

\* expected<monostate, E> unexpected(const E& e)
unexpected(h, s, e) == expected_E(h, s, e)

\* an overload that takes the whole array, terminator included, as the text
unexpected_cstr_mut(h, s, cs) == unexpected(h, s, cs)

\* expected<monostate, std::string> unexpected(const char* e)
unexpected_cstr(h, s, cs) == unexpected(h, s, std_string(cs))

----------------------------------------------------------------------------
(* The program: construction, assignment and destruction of the named      *)
(* containers, and calls of the accessors and the factory, in any order.   *)
(* last describes the operation that ran last: its name, the container it  *)
(* ran on, its source container, its argument, what it returned or threw,  *)
(* and its payload constructions and destructions.                         *)

Quals == {"const&", "&", "const&&", "&&"}

Done(op, dst, src, arg, res, h) ==
    /\ cont' = h.cont
    /\ live' = h.live
    /\ ub' = h.ub
    /\ last' = [op |-> op, dst |-> dst, src |-> src, arg |-> arg,
                res |-> res, ev |-> h.ev]
    /\ UNCHANGED cxx20

Init ==
    /\ cont = [s \in AllSlots |-> Dead]
    /\ live = 0
    /\ ub = FALSE
    /\ last = [op |-> "init", dst |-> NoSlot, src |-> NoSlot, arg |-> "none",
               res |-> NoRes, ev |-> <<>>]
    /\ cxx20 \in BOOLEAN

\* expected<T, E> x(t);
ConstructT(s, t) ==
    /\ ~cont[s].live
    /\ Done("expected(T)", s, NoSlot, t, NoRes, expected_T(H0, s, t))

\* expected<T, E> x(e);
ConstructE(s, e) ==
    /\ ~cont[s].live
    /\ Done("expected(E)", s, NoSlot, e, NoRes, expected_E(H0, s, e))

\* expected<T, E> x;
ConstructDefault(s) ==
    /\ ~cont[s].live
    /\ Done("expected()", s, NoSlot, "none", NoRes, expected_default(H0, s))

\* expected<T, E> x(y);
ConstructCopy(s, o) ==
    /\ ~cont[s].live /\ cont[o].live /\ TypeOf(s) = TypeOf(o)
    /\ Done("copy", s, o, "none", NoRes, expected_copy(H0, s, o))

\* expected<T, E> x(std::move(y));
ConstructMove(s, o) ==
    /\ ~cont[s].live /\ cont[o].live /\ TypeOf(s) = TypeOf(o)
    /\ Done("move", s, o, "none", NoRes, expected_move(H0, s, o))

\* expected<T, E> x(m); with m an expected<monostate, E>
ConstructConvert(s, o) ==
    /\ ~cont[s].live /\ cont[o].live
    /\ Done("convert", s, o, "none", NoRes, expected_convert(H0, s, o))

\* x = y;
AssignCopy(s, o) ==
    /\ cont[s].live /\ cont[o].live /\ TypeOf(s) = TypeOf(o)
    /\ Done("copy=", s, o, "none", NoRes, assign_copy(H0, s, o))

\* x = std::move(y);
AssignMove(s, o) ==
    /\ cont[s].live /\ cont[o].live /\ TypeOf(s) = TypeOf(o)
    /\ Done("move=", s, o, "none", NoRes, assign_move(H0, s, o))

\* x = nl::unexpected(cs);  the factory's result is converted to
\* expected<T, E>, x is move-assigned from that temporary, and both
\* temporaries are destroyed at the end of the full expression
AssignUnexpected(s, cs) ==
    /\ cont[s].live
    /\ LET h1 == unexpected_cstr(H0, FacTmp, cs)
           h2 == expected_convert(h1, ConvTmp, FacTmp)
           h3 == assign_move(h2, s, ConvTmp)
           h4 == dtor_expected(h3, ConvTmp)
           h5 == dtor_expected(h4, FacTmp)
       IN Done("=unexpected", s, NoSlot, cs, NoRes, h5)

\* the end of x's scope
Destruct(s) ==
    /\ cont[s].live
    /\ Done("~expected", s, NoSlot, "none", NoRes, dtor_expected(H0, s))

\* auto m = nl::unexpected(e);
Unexpected(s, e) ==
    /\ ~cont[s].live
    /\ Done("unexpected(E)", s, NoSlot, e, NoRes, unexpected(H0, s, e))

\* auto m = nl::unexpected("...");
UnexpectedCStr(s, cs) ==
    /\ ~cont[s].live
    /\ Done("unexpected(char*)", s, NoSlot, cs, NoRes, unexpected_cstr(H0, s, cs))

Reads(h, s, m) == [h EXCEPT !.ub = @ \/ ReadsDead(h.cont[s], m)]

\* x.has_value()
HasValue(s) ==
    /\ cont[s].live
    /\ Done("has_value", s, NoSlot, "none", Ret(has_value(cont[s])), H0)

\* static_cast<bool>(x)
OperatorBool(s) ==
    /\ cont[s].live
    /\ Done("bool", s, NoSlot, "none", Ret(operator_bool(cont[s])), H0)

\* x.value(): res is what each of the four overloads gives on x
Value(s) ==
    /\ cont[s].live
    /\ LET r == [q \in Quals |->
                   CASE q = "const&" -> value(cont[s])
                     [] q = "&" -> value_lref(cont[s])
                     [] q = "const&&" -> value_const_rref(cont[s])
                     [] q = "&&" -> value_rref(cont[s])]
       IN Done("value", s, NoSlot, "none", r,
               IF \E q \in Quals : r[q].kind = "ret"
               THEN Reads(H0, s, "value") ELSE H0)

\* x.error(): res is what each of the four overloads gives on x
Error(s) ==
    /\ cont[s].live
    /\ LET r == [q \in Quals |->
                   CASE q = "const&" -> error(cont[s])
                     [] q = "&" -> error_lref(cont[s])
                     [] q = "const&&" -> error_const_rref(cont[s])
                     [] q = "&&" -> error_rref(cont[s])]
       IN Done("error", s, NoSlot, "none", r,
               IF \E q \in Quals : r[q].kind = "ret"
               THEN Reads(H0, s, "error") ELSE H0)

\* x.value_or(u)
ValueOr(s, u) ==
    /\ cont[s].live
    /\ Done("value_or", s, NoSlot, u, Ret(value_or(cont[s], TypeOf(s), u)),
            IF cont[s]._has_value THEN Reads(H0, s, "value") ELSE H0)

\* x.error_or(cs)
ErrorOr(s, cs) ==
    /\ cont[s].live
    /\ Done("error_or", s, NoSlot, cs, Ret(error_or(cont[s], cs)),
            IF ~cont[s]._has_value THEN Reads(H0, s, "error") ELSE H0)

Next ==
    \/ \E s \in UserSlots : \E t \in TDom(TypeOf(s)) : ConstructT(s, t)
    \/ \E s \in UserSlots : \E e \in Strings : ConstructE(s, e)
    \/ \E s \in UserSlots : ConstructDefault(s)
    \/ \E s, o \in UserSlots : ConstructCopy(s, o)
    \/ \E s, o \in UserSlots : ConstructMove(s, o)
    \/ \E s \in CSlots : \E o \in MSlots : ConstructConvert(s, o)
    \/ \E s, o \in UserSlots : AssignCopy(s, o)
    \/ \E s, o \in UserSlots : AssignMove(s, o)
    \/ \E s \in CSlots : \E cs \in CStrings : AssignUnexpected(s, cs)
    \/ \E s \in UserSlots : Destruct(s)
    \/ \E s \in MSlots : \E e \in Strings : Unexpected(s, e)
    \/ \E s \in MSlots : \E cs \in CStrings : UnexpectedCStr(s, cs)
    \/ \E s \in UserSlots : HasValue(s)
    \/ \E s \in UserSlots : OperatorBool(s)
    \/ \E s \in UserSlots : Value(s)
    \/ \E s \in UserSlots : Error(s)
    \/ \E s \in UserSlots : \E u \in UDom(TypeOf(s)) : ValueOr(s, u)
    \/ \E s \in UserSlots : \E cs \in CStrings : ErrorOr(s, cs)

Spec == Init /\ [][Next]_vars

----------------------------------------------------------------------------
(* Properties *)

Assignments == {"copy=", "move=", "=unexpected"}

\* the union member the discriminant names
Named(c) == IF c._has_value THEN "value" ELSE "error"

\* exactly the member the discriminant names is within its lifetime
OneAlive(c) ==
    /\ c._has_value <=> c.vAlive
    /\ ~c._has_value <=> c.eAlive

DtorsAt(ev, s) == {i \in DOMAIN ev : ev[i].k = "dtor" /\ ev[i].at = s}

CtorsAt(ev, s) == {i \in DOMAIN ev : ev[i].k = "ctor" /\ ev[i].at = s}

\* C1: in every reachable state, every container within its lifetime has
\* exactly one union member within its lifetime, the one its discriminant
\* names: after each construction, and before and after each assignment.
C1_DiscriminantNamesLiveMember ==
    \A s \in AllSlots : cont[s].live => OneAlive(cont[s])

\* a failure-state container that a copy assignment has just turned from the
\* success state (its value member was destroyed first)
C1_Witness ==
    /\ last.op = "copy="
    /\ last.dst # last.src
    /\ cont[last.dst].live
    /\ ~cont[last.dst]._has_value
    /\ cont[last.dst].eAlive
    /\ last.ev[1] = Ev("dtor", last.dst, "value")

\* C2: value() gives the success payload when the discriminant is true and
\* throws the value-mismatch message when it is false; error() gives the
\* failure payload when the discriminant is false and throws the
\* error-mismatch message when it is true; in all four reference
\* qualifications; and the two messages differ.
C2_AccessorsCheckDiscriminant ==
    /\ MsgValue # MsgError
    /\ last.op = "value" =>
         \A q \in Quals :
            IF cont[last.dst]._has_value
            THEN last.res[q].kind = "ret" /\ last.res[q].val = cont[last.dst].mem
            ELSE last.res[q].kind = "throw" /\ last.res[q].val = MsgValue
    /\ last.op = "error" =>
         \A q \in Quals :
            IF ~cont[last.dst]._has_value
            THEN last.res[q].kind = "ret" /\ last.res[q].val = cont[last.dst].mem
            ELSE last.res[q].kind = "throw" /\ last.res[q].val = MsgError

\* error() has just thrown on a success-state container, in each qualification
C2_Witness ==
    /\ last.op = "error"
    /\ cont[last.dst]._has_value
    /\ \A q \in Quals : last.res[q] = Throw(MsgError)

\* C3: a container constructed from a T is in the success state and value()
\* gives that T; one constructed from an E is in the failure state and
\* error() gives that E; a default-constructed one is in the success state
\* and holds T().
C3_ConstructionFixesState ==
    /\ last.op = "expected(T)" =>
         /\ cont[last.dst].live
         /\ has_value(cont[last.dst])
         /\ value(cont[last.dst]).kind = "ret"
         /\ value(cont[last.dst]).val = last.arg
    /\ last.op = "expected(E)" =>
         /\ cont[last.dst].live
         /\ ~has_value(cont[last.dst])
         /\ error(cont[last.dst]).kind = "ret"
         /\ error(cont[last.dst]).val = last.arg
    /\ last.op = "expected()" =>
         /\ cont[last.dst].live
         /\ has_value(cont[last.dst])
         /\ value(cont[last.dst]).kind = "ret"
         /\ value(cont[last.dst]).val = (IF TypeOf(last.dst) = "C" THEN 0 ELSE Mono)

\* an expected<bool, std::string> just constructed from the text <<1>>
C3_Witness ==
    /\ last.op = "expected(E)"
    /\ TypeOf(last.dst) = "C"
    /\ last.arg = <<1>>
    /\ error(cont[last.dst]) = Ret(<<1>>)
\* what a step that copy- or move-constructs, or move-assigns, does
C4_Step ==
    /\ last'.op \in {"copy", "move"} =>
         /\ cont'[last'.dst].live
         /\ cont'[last'.dst]._has_value = cont[last'.src]._has_value
         /\ cont'[last'.dst].mem = cont[last'.src].mem
         /\ OneAlive(cont'[last'.dst])
    /\ last'.op \in {"move", "move="} =>
         /\ cont'[last'.src].live
         /\ cont'[last'.src]._has_value = cont[last'.src]._has_value
         /\ OneAlive(cont'[last'.src])

\* C4: a copy or move construction gives a destination with the source's
\* discriminant and active payload as they were before the step, and a move
\* construction or move assignment leaves the source's discriminant as it
\* was, with the member it names still within its lifetime.
C4_CopyMovePreserve == [][C4_Step]_vars

\* a failure-state container just move-constructed from one that holds <<1>>,
\* the source still in the failure state
C4_Witness ==
    /\ last.op = "move"
    /\ ~cont[last.dst]._has_value
    /\ cont[last.dst].mem = <<1>>
    /\ ~cont[last.src]._has_value
    /\ cont[last.src].live

\* the temporaries' events of an operation pair up: what is constructed at a
\* temporary location is destroyed there, and no temporary outlives it
TemporariesBalanced(ev) ==
    \A t \in {PTmp, AsgTmp("C"), AsgTmp("M"), ConvTmp, FacTmp} :
       /\ Cardinality(CtorsAt(ev, t)) = Cardinality(DtorsAt(ev, t))
       /\ \A i \in CtorsAt(ev, t) : \E j \in DtorsAt(ev, t) : j > i
       /\ t \in AllSlots => ~cont[t].live

\* C5: an assignment between containers gives the assignee the source's
\* discriminant and payload and destroys the assignee's previous payload
\* exactly once; no member outside its lifetime is ever destroyed or read;
\* every temporary payload is destroyed; and the payload objects within
\* their lifetime are as many as the containers within theirs.
C5_AssignmentNoLeakNoDoubleDestroy ==
    /\ ~ub
    /\ live = Cardinality({s \in AllSlots : cont[s].live})
    /\ TemporariesBalanced(last.ev)
    /\ last.op \in {"copy=", "move="} /\ last.dst # last.src =>
         /\ cont[last.dst].live
         /\ cont[last.dst]._has_value = cont[last.src]._has_value
         /\ cont[last.dst].mem = cont[last.src].mem
    /\ last.op \in Assignments /\ last.dst # last.src =>
         /\ Cardinality(DtorsAt(last.ev, last.dst)) = 1
         /\ Cardinality(CtorsAt(last.ev, last.dst)) = 1
    /\ last.op = "~expected" =>
         /\ Len(last.ev) = 1
         /\ last.ev[1].k = "dtor" /\ last.ev[1].at = last.dst

\* a success-state container just copy-assigned a failure in the C++20 build:
\* its value was destroyed, and the temporaries of the assignment are gone
C5_Witness ==
    /\ cxx20
    /\ last.op = "copy="
    /\ last.dst # last.src
    /\ last.ev[1] = Ev("dtor", last.dst, "value")
    /\ ~cont[last.dst]._has_value
    /\ cont[last.dst].mem = cont[last.src].mem
    /\ CtorsAt(last.ev, PTmp) # {}
    /\ live = 2
\* what a step that assigns a container to itself does
C6_Step ==
    last'.op \in {"copy=", "move="} /\ last'.dst = last'.src =>
       /\ cont' = cont
       /\ live' = live
       /\ ub' = ub
       /\ last'.ev = <<>>

\* C6: copy-assigning or move-assigning a container to itself changes no
\* container and constructs and destroys no payload.
C6_SelfAssignmentNoOp == [][C6_Step]_vars

\* a container that holds <<1>> just move-assigned to itself
C6_Witness ==
    /\ last.op = "move="
    /\ last.dst = last.src
    /\ cont[last.dst].live
    /\ ~cont[last.dst]._has_value
    /\ cont[last.dst].mem = <<1>>
    /\ last.ev = <<>>
\* what value_or and error_or have returned
C7_Result ==
    /\ last.op = "value_or" =>
         /\ last.res.kind = "ret"
         /\ last.res.val =
              IF cont[last.dst]._has_value THEN cont[last.dst].mem
              ELSE IF TypeOf(last.dst) = "M" THEN Mono
              ELSE IF last.arg = 0 THEN 0 ELSE 1
    /\ last.op = "error_or" =>
         /\ last.res.kind = "ret"
         /\ IF ~cont[last.dst]._has_value
            THEN last.res.val = cont[last.dst].mem
            ELSE Append(last.res.val, 0) = last.arg

\* what a step that calls value_or or error_or changes
C7_Step ==
    last'.op \in {"value_or", "error_or"} =>
       cont' = cont /\ live' = live /\ ub' = ub

\* C7: value_or gives the success payload in the success state and the
\* argument converted to T otherwise; error_or gives the failure payload in
\* the failure state and the argument converted to E otherwise; neither
\* throws, and neither changes any container.
C7_ValueOrErrorOr == []C7_Result /\ [][C7_Step]_vars

\* value_or(2) on a failure-state expected<bool, std::string> gave true
C7_Witness ==
    /\ last.op = "value_or"
    /\ TypeOf(last.dst) = "C"
    /\ ~cont[last.dst]._has_value
    /\ last.arg = 2
    /\ last.res = Ret(1)

\* C8: nl::unexpected(e) is in the failure state and error() gives e; the
\* const char* overload gives the text before the terminator, and value() on
\* the result throws the value-mismatch message.
C8_UnexpectedMakesFailure ==
    /\ last.op = "unexpected(E)" =>
         /\ cont[last.dst].live
         /\ ~has_value(cont[last.dst])
         /\ error(cont[last.dst]).kind = "ret"
         /\ error(cont[last.dst]).val = last.arg
         /\ value(cont[last.dst]) = Throw(MsgValue)
    /\ last.op = "unexpected(char*)" =>
         /\ cont[last.dst].live
         /\ ~has_value(cont[last.dst])
         /\ error(cont[last.dst]).kind = "ret"
         /\ Append(error(cont[last.dst]).val, 0) = last.arg
         /\ value(cont[last.dst]) = Throw(MsgValue)

\* nl::unexpected("\1") has just returned a container whose error() is <<1>>
C8_Witness ==
    /\ last.op = "unexpected(char*)"
    /\ last.arg = <<1, 0>>
    /\ error(cont[last.dst]) = Ret(<<1>>)
\* what a converting construction, and x = nl::unexpected(cs), do
C9_Step ==
    /\ last'.op = "convert" =>
         /\ cont'[last'.dst].live
         /\ cont'[last'.dst]._has_value = cont[last'.src]._has_value
         /\ OneAlive(cont'[last'.dst])
         /\ IF cont[last'.src]._has_value
            THEN cont'[last'.dst].mem = 0
            ELSE cont'[last'.dst].mem = cont[last'.src].mem
         /\ cont'[last'.src] = cont[last'.src]
    /\ last'.op = "=unexpected" =>
         /\ cont'[last'.dst].live
         /\ ~has_value(cont'[last'.dst])
         /\ error(cont'[last'.dst]).kind = "ret"
         /\ Append(error(cont'[last'.dst]).val, 0) = last'.arg
         /\ value(cont'[last'.dst]) = Throw(MsgValue)

\* C9: converting an expected<monostate, E> gives a destination with the
\* source's discriminant: the source's failure payload in the failure
\* state, T() in the success state; and x = nl::unexpected(cs) leaves x in
\* the failure state with error() the text of cs and value() throwing.
C9_ConversionPreservesState == [][C9_Step]_vars

\* a success-state container was just assigned nl::unexpected("\1")
C9_Witness ==
    /\ last.op = "=unexpected"
    /\ last.arg = <<1, 0>>
    /\ \E i \in DOMAIN last.ev : last.ev[i] = Ev("dtor", last.dst, "value")
    /\ error(cont[last.dst]) = Ret(<<1>>)

\* a success-state expected<monostate, E> was just converted
C9_WitnessSuccess ==
    /\ last.op = "convert"
    /\ cont[last.src]._has_value
    /\ cont[last.dst]._has_value
    /\ cont[last.dst].mem = 0
\* which steps change a discriminant, and what the accessors do
C10_Step ==
    /\ \A s \in UserSlots :
          cont[s].live /\ cont'[s].live
          /\ cont'[s]._has_value # cont[s]._has_value =>
             last'.op \in Assignments /\ last'.dst = s
    /\ last'.op \in Assignments /\ last'.dst # last'.src =>
          /\ \E d \in DtorsAt(last'.ev, last'.dst) :
                /\ last'.ev[d].m = Named(cont[last'.dst])
                /\ \A i \in CtorsAt(last'.ev, last'.dst) : i > d
          /\ CtorsAt(last'.ev, last'.dst) # {}
    /\ last'.op \in {"has_value", "bool"} =>
          /\ last'.res = Ret(cont[last'.dst]._has_value)
          /\ cont' = cont /\ live' = live /\ ub' = ub
    /\ last'.op \in {"value", "error", "value_or", "error_or"} =>
          cont' = cont

\* C10: the discriminant of a container changes only in an assignment to
\* it; an assignment from another container destroys the member the
\* discriminant named before it constructs the new one; has_value and the
\* conversion to bool give the discriminant; and no accessor changes any
\* container.
C10_DiscriminantChangesOnlyByAssignment == [][C10_Step]_vars

\* a move assignment has just turned a failure-state container into a
\* success-state one
C10_Witness ==
    /\ last.op = "move="
    /\ last.dst # last.src
    /\ last.ev[1] = Ev("dtor", last.dst, "error")
    /\ cont[last.dst]._has_value

====
